---- MODULE Spec2Model ----
(***************************************************************************)
(* Event-to-telemetry derivation of github-telemetry.                      *)
(*                                                                         *)
(* Two EventProcessor classes turn a QueueMessage into calls on a          *)
(* TelemetryClient: src/frontend/processor.py (flat metric export through  *)
(* TelemetryClient.export) and src/backend/processor.py (events, metrics   *)
(* and a run -> job -> step span hierarchy).  A state of the model is the  *)
(* state right after one process_message call has returned: the message,   *)
(* what the telemetry adapter and its transport did during the call, the   *)
(* calls the processor made, the spans that were exported and the result.  *)
(* The frontend and the backend are separate services, each with its own   *)
(* processor and adapter; a behaviour of the model follows one of them.    *)
(* The frontend processor imports its models from src.frontend.models,     *)
(* which the repository does not ship; the event models of                 *)
(* src/shared/models.py stand for them, and the attributes the frontend    *)
(* reads beyond those (labels, runner names, run_url) are taken to exist.  *)
(* The tracer's span context outlives a call and is carried from message   *)
(* to message.                                                             *)
(*                                                                         *)
(* Around the processors stand their callers, each with a specification of *)
(* its own over the same variables: the signature verifier (SigSpec), the  *)
(* webhook endpoint of the frontend (WebSpec) and the poll loop of the     *)
(* backend with its storage queue (WorkerSpec, and WorkerFairSpec where    *)
(* the loop is required to make progress).  Three more specifications      *)
(* cover the pool-name helper (PoolSpec), the metric aggregator (AggSpec)  *)
(* and two job events handled at once on one client (ConcSpec).            *)
(*                                                                         *)
(* Timestamps are whole seconds; an optional value is <<>> when absent and *)
(* <<v>> when present.  The code reads a timestamp only to test that it is *)
(* present and to subtract it from another one, so two instants are enough *)
(* to produce negative, zero and positive durations.                       *)
(***************************************************************************)
EXTENDS Integers, Sequences, FiniteSets

VARIABLES
    configured,   \* the TelemetryClient was built with a connection string
    tracer_ctx,   \* trace id held by the tracer's span context (backend client)
    proc,         \* the service: which EventProcessor class handles the messages
    phase,        \* "ready" for a message, or "returned" from process_message
    msg,          \* the QueueMessage handed to process_message
    fault,        \* what the adapter / transport did during the call
    calls,        \* the calls the processor made on the TelemetryClient, in order
    spans,        \* spans handed to the trace exporter during the call, in order
    failed_emits, \* emissions the transport failed to deliver during the call
    result,       \* value returned by process_message
    propagated,   \* an exception left process_message
    span_log,     \* span starts and ends during the call, in order
    local_logs,   \* log records written with an emission's content during the call
    sig,          \* one call of validate_github_signature: its arguments and outcome
    webhook_secret, \* settings.github_webhook_secret of the frontend
    req,          \* the request POST /webhook is answering
    response,     \* HTTP status code of the answer, 0 while there is none
    running,      \* BackendService._running
    pc,           \* where the backend's poll loop stands
    queue,        \* the storage queue: per message its content, state and deliveries
    batch,        \* the messages receive_messages returned, by queue position
    idx,          \* position in batch of the message being handled
    wlog,         \* what the loop did with each message of the batch so far
    caught,       \* the last _process_messages call ended in an exception
    rlog,         \* what receive_messages dequeued and ran into, as it returns
    mdp,          \* one call of get_mdp_name: its argument and result
    agg,          \* the metric aggregator of one derivation call, by metric name
    conc          \* two _send_job_telemetry calls in progress on one TelemetryClient

procVars == <<configured, tracer_ctx, proc, phase, msg, fault, calls, spans, failed_emits,
              result, propagated, span_log, local_logs>>

sigVars == <<sig>>

httpVars == <<webhook_secret, req, response>>

workerVars == <<running, pc, queue, batch, idx, wlog, caught, rlog>>

poolVars == <<mdp>>

\* The functions checked on their own, one group each.
aggVars == <<agg>>

concVars == <<conc>>

unitVars == <<sigVars, poolVars, aggVars, concVars>>

vars == <<procVars, unitVars, httpVars, workerVars>>

-----------------------------------------------------------------------------
(* Bounds and input sets                                                   *)

\* Longest step list of a job payload.
MaxSteps == 2

\* The adapter raises, if at all, at one of the first MaxFaultAt calls a
\* message makes on it.
MaxFaultAt == 2

RunIds == {101, 102}

JobIds == {7}

None == <<>>

Some(v) == <<v>>

Present(x) == x # None

Val(x) == x[1]

Opt(S) == {None} \cup {Some(v) : v \in S}

Times == {0, 1}

OptTime == Opt(Times)

\* created_at is read only by "started - created".
OptCreated == Opt({0})

\* A JSON value given for a required integer field "id": missing, a
\* non-numeric string, or an integer.
RawIds(S) == {[t |-> "missing", v |-> 0], [t |-> "str", v |-> 0]}
                 \cup {[t |-> "int", v |-> i] : i \in S}

RunStatuses == {"in_progress", "completed"}

JobStatuses == {"in_progress", "completed"}

\* A step ends, if it has ended, at the later instant.
Steps == [number : {0}, started_at : OptTime, completed_at : Opt({1})]

\* Step lists of at most MaxSteps steps; step numbers are 1-based positions.
StepLists == UNION {{[i \in 1 .. n |-> [f[i] EXCEPT !.number = i]] : f \in [1 .. n -> Steps]}
                       : n \in 0 .. MaxSteps}

RunNames == {"CI"}

\* conclusion: str | None.
OptConclusion == Opt({"success"})

WorkflowRuns == [id : RawIds(RunIds), name : RunNames, status : RunStatuses,
                 conclusion : OptConclusion, created_at : OptCreated,
                 run_started_at : OptTime, updated_at : OptTime]

WorkflowJobs == [id : RawIds(JobIds), run_id : RunIds, status : JobStatuses,
                 created_at : OptCreated, started_at : OptTime, completed_at : OptTime,
                 steps : StepLists]

\* Payloads whose required id is missing or mistyped are drawn with the
\* remaining fields fixed: validation rejects them before any field is read.
RunPayloads == {[workflow_run |-> r] : r \in
                  {r \in WorkflowRuns : r.id.t # "int" =>
                      /\ r.status = "completed"
                      /\ r.conclusion = Some("success")
                      /\ r.created_at = Some(0)
                      /\ r.run_started_at = Some(0)
                      /\ r.updated_at = Some(1)}}

JobPayloads == {[workflow_job |-> j] : j \in
                  {j \in WorkflowJobs : j.id.t # "int" =>
                      /\ j.status = "completed"
                      /\ j.created_at = Some(0)
                      /\ j.started_at = Some(0)
                      /\ j.completed_at = Some(1)
                      /\ Len(j.steps) = MaxSteps
                      /\ \A i \in 1 .. Len(j.steps) :
                            /\ j.steps[i].started_at = Some(0)
                            /\ j.steps[i].completed_at = Some(1)}}

\* Payloads that would emit were they processed: used for the messages whose
\* event type does not match the payload.
FullRunPayloads == {p \in RunPayloads :
                      /\ p.workflow_run.status = "completed"
                      /\ Present(p.workflow_run.conclusion)
                      /\ Present(p.workflow_run.created_at)
                      /\ Present(p.workflow_run.run_started_at)
                      /\ Present(p.workflow_run.updated_at)}

FullJobPayloads == {p \in JobPayloads :
                      /\ Present(p.workflow_job.created_at)
                      /\ Present(p.workflow_job.started_at)
                      /\ Present(p.workflow_job.completed_at)
                      /\ Len(p.workflow_job.steps) = MaxSteps
                      /\ \A i \in 1 .. Len(p.workflow_job.steps) :
                            /\ Present(p.workflow_job.steps[i].started_at)
                            /\ Present(p.workflow_job.steps[i].completed_at)}

Messages ==
    {[event_type |-> "workflow_run", payload |-> p] : p \in RunPayloads \cup FullJobPayloads}
    \cup {[event_type |-> "workflow_job", payload |-> p] : p \in JobPayloads \cup FullRunPayloads}
    \cup {[event_type |-> "issues", payload |-> p] : p \in FullRunPayloads \cup FullJobPayloads}

-----------------------------------------------------------------------------
(* Values crossing the adapter boundary                                    *)

\* str(x) of a Python number: str(0) of the int 0 is "0", str of a float
\* is its repr ("60.0"); the digits and the kind of number are kept.
PyStr(kind, v) == [py |-> kind, text_of |-> v]

\* One call on the TelemetryClient.  Unused fields are None / 0 / "".
\*   op         method called
\*   name       metric, event or span name
\*   type       the "type" attribute of an exported MetricValue
\*   value      metric value / duration_seconds measurement, optional
\*   queue_attr the "queue_duration_seconds" attribute, optional
\*   run_id     workflow run id carried by the call
\*   step       step number, 0 when the call is not about a step
\*   props      workflow_name, status and conclusion of an event's properties
NoProps == [workflow_name |-> "", status |-> "", conclusion |-> ""]

Call(op, name, type, value, queue_attr, run_id, step) ==
    [op |-> op, name |-> name, type |-> type, value |-> value,
     queue_attr |-> queue_attr, run_id |-> run_id, step |-> step, props |-> NoProps]

\* What a handler body does when no adapter call raises: the adapter calls it
\* makes, in order, and whether it then returns True or raises by itself.
Return(cs) == [calls |-> cs, end |-> "return"]

Raise(cs) == [calls |-> cs, end |-> "raise"]

\* (a - b).total_seconds() on two datetimes.
TotalSeconds(a, b) == Val(a) - Val(b)

-----------------------------------------------------------------------------
(* Event models: src/shared/models.py                                      *)

\* Variant of ValidId: an id given as a string is accepted as well.
ValidIdAnyScalar(raw) == raw.t \in {"int", "str"}

\* pydantic validation of a required "id: int" field.
ValidId(raw) == raw.t = "int"

\* WorkflowRunEvent.model_validate(payload)
ValidRunEvent(payload) ==
    /\ "workflow_run" \in DOMAIN payload
    /\ ValidId(payload.workflow_run.id)

\* WorkflowJobEvent.model_validate(payload)
ValidJobEvent(payload) ==
    /\ "workflow_job" \in DOMAIN payload
    /\ ValidId(payload.workflow_job.id)

-----------------------------------------------------------------------------
(* Frontend processor: src/frontend/processor.py                           *)

\* Line 65: the run duration is computed only for a completed run with both
\* bounds present.
FeRunGate(run) ==
    /\ Present(run.run_started_at)
    /\ Present(run.updated_at)
    /\ run.status = "completed"

\* Lines 64-105.  Line 68 subtracts created_at without testing it: with
\* created_at absent the subtraction raises before export is called.
FeRunBody(run) ==
    IF FeRunGate(run)
    THEN IF Present(run.created_at)
         THEN Return(<<Call("export", "duration_seconds", "workflow_run",
                            Some(TotalSeconds(run.updated_at, run.run_started_at)),
                            Some(PyStr("float",
                                       TotalSeconds(run.run_started_at, run.created_at))),
                            run.id.v, 0)>>)
         ELSE Raise(<<>>)
    ELSE Return(<<>>)

\* _process_workflow_run up to its except clause.
FeProcessWorkflowRun(payload) ==
    IF ValidRunEvent(payload) THEN FeRunBody(payload.workflow_run) ELSE Raise(<<>>)

\* Lines 134-140: queue_duration_seconds starts as the int 0 and is replaced
\* only when created_at is present.
FeJobQueueAttr(job) ==
    IF Present(job.created_at)
    THEN PyStr("float", TotalSeconds(job.started_at, job.created_at))
    ELSE PyStr("int", 0)

\* Variant of FeJobGate: the gate of the run path, status included.
FeJobGateCompletedOnly(job) ==
    /\ Present(job.started_at)
    /\ Present(job.completed_at)
    /\ job.status = "completed"

\* Line 136.
FeJobGate(job) == Present(job.started_at) /\ Present(job.completed_at)

\* Lines 133-177.
FeJobMetric(job) ==
    IF FeJobGate(job)
    THEN <<Call("export", "duration_seconds", "workflow_job",
                Some(TotalSeconds(job.completed_at, job.started_at)),
                Some(FeJobQueueAttr(job)), job.run_id, 0)>>
    ELSE <<>>

\* Line 181 (frontend) and line 265 (backend).
StepGate(step) == Present(step.started_at) /\ Present(step.completed_at)

\* Variant of FeStepMetrics: the loop is left after the first exported step.
RECURSIVE FeStepMetricsBreak(_, _)
FeStepMetricsBreak(job, i) ==
    IF i > Len(job.steps) THEN <<>>
    ELSE LET step == job.steps[i]
         IN  IF StepGate(step)
             THEN <<Call("export", "duration_seconds", "workflow_job_step",
                         Some(TotalSeconds(step.completed_at, step.started_at)),
                         None, job.run_id, step.number)>>
             ELSE FeStepMetricsBreak(job, i + 1)

\* Lines 180-213: one export per qualifying step, in list order.
RECURSIVE FeStepMetrics(_, _)
FeStepMetrics(job, i) ==
    IF i > Len(job.steps) THEN <<>>
    ELSE LET step == job.steps[i]
             here == IF StepGate(step)
                     THEN <<Call("export", "duration_seconds", "workflow_job_step",
                                 Some(TotalSeconds(step.completed_at, step.started_at)),
                                 None, job.run_id, step.number)>>
                     ELSE <<>>
         IN  here \o FeStepMetrics(job, i + 1)

\* _process_workflow_job up to its except clause.
FeProcessWorkflowJob(payload) ==
    IF ValidJobEvent(payload)
    THEN Return(FeJobMetric(payload.workflow_job)
                \o FeStepMetrics(payload.workflow_job, 1))
    ELSE Raise(<<>>)

-----------------------------------------------------------------------------
(* Backend processor: src/backend/processor.py                             *)

\* Lines 73-77: duration_seconds of a run, None unless completed with both
\* bounds present.
BeRunDuration(run) ==
    IF Present(run.run_started_at) /\ Present(run.updated_at) /\ run.status = "completed"
    THEN Some(TotalSeconds(run.updated_at, run.run_started_at))
    ELSE None

\* x or "" on an optional text.
OrEmpty(x) == IF Present(x) /\ Val(x) # "" THEN Val(x) ELSE ""

\* Lines 80-90 and 183-198: the properties of the WorkflowRun event, taken
\* from the run by way of WorkflowMetrics.
RunProps(run) ==
    [workflow_name |-> run.name, status |-> run.status,
     conclusion |-> OrEmpty(run.conclusion)]

\* Variant of SendWorkflowTelemetry: nothing is sent for a run without a
\* duration.
SendWorkflowTelemetryCompletedOnly(run) ==
    LET d == BeRunDuration(run)
    IN  IF Present(d)
        THEN <<[Call("track_workflow_event", "WorkflowRun", "", d, None, run.id.v, 0)
                   EXCEPT !.props = RunProps(run)],
               Call("track_metric", "workflow_duration_seconds", "", d, None,
                    run.id.v, 0)>>
        ELSE <<>>

\* _send_workflow_telemetry, lines 177-220: one WorkflowRun event, then the
\* duration metric when a duration was computed.
SendWorkflowTelemetry(run) ==
    LET d == BeRunDuration(run)
    IN  <<[Call("track_workflow_event", "WorkflowRun", "", d, None, run.id.v, 0)
              EXCEPT !.props = RunProps(run)]>>
        \o (IF Present(d)
            THEN <<Call("track_metric", "workflow_duration_seconds", "", d, None,
                        run.id.v, 0)>>
            ELSE <<>>)

\* _process_workflow_run up to its except clause.
BeProcessWorkflowRun(payload) ==
    IF ValidRunEvent(payload)
    THEN Return(SendWorkflowTelemetry(payload.workflow_run))
    ELSE Raise(<<>>)

\* Lines 133-137: duration_seconds of a job, None unless both bounds present.
BeJobDuration(job) ==
    IF Present(job.started_at) /\ Present(job.completed_at)
    THEN Some(TotalSeconds(job.completed_at, job.started_at))
    ELSE None

\* Lines 264-313: per qualifying step a child span of the job span, started
\* and ended at once, then the step metric.
RECURSIVE BeStepTelemetry(_, _)
BeStepTelemetry(job, i) ==
    IF i > Len(job.steps) THEN <<>>
    ELSE LET step == job.steps[i]
             d    == Some(TotalSeconds(step.completed_at, step.started_at))
             here == IF StepGate(step)
                     THEN <<Call("start_child_span", "WorkflowStep", "", d, None,
                                 job.run_id, step.number),
                            Call("end_span", "WorkflowStep", "", None, None,
                                 job.run_id, step.number),
                            Call("track_metric", "step_duration_seconds", "", d, None,
                                 job.run_id, step.number)>>
                     ELSE <<>>
         IN  here \o BeStepTelemetry(job, i + 1)

\* Variant of SendJobTelemetry: the run span is ended before the job span.
SendJobTelemetryRunEndsFirst(job) ==
    LET d == BeJobDuration(job)
    IN  <<Call("start_workflow_span", "WorkflowRun", "", None, None, job.run_id, 0),
          Call("start_child_span", "WorkflowJob", "", d, None, job.run_id, 0)>>
        \o BeStepTelemetry(job, 1)
        \o <<Call("end_span", "WorkflowRun", "", None, None, job.run_id, 0),
             Call("end_span", "WorkflowJob", "", None, None, job.run_id, 0)>>
        \o (IF Present(d)
            THEN <<Call("track_metric", "job_duration_seconds", "", d, None,
                        job.run_id, 0)>>
            ELSE <<>>)

\* _send_job_telemetry, lines 222-332.
SendJobTelemetry(job) ==
    LET d == BeJobDuration(job)
    IN  <<Call("start_workflow_span", "WorkflowRun", "", None, None, job.run_id, 0),
          Call("start_child_span", "WorkflowJob", "", d, None, job.run_id, 0)>>
        \o BeStepTelemetry(job, 1)
        \o <<Call("end_span", "WorkflowJob", "", None, None, job.run_id, 0),
             Call("end_span", "WorkflowRun", "", None, None, job.run_id, 0)>>
        \o (IF Present(d)
            THEN <<Call("track_metric", "job_duration_seconds", "", d, None,
                        job.run_id, 0)>>
            ELSE <<>>)

\* _process_workflow_job up to its except clause.
BeProcessWorkflowJob(payload) ==
    IF ValidJobEvent(payload)
    THEN Return(SendJobTelemetry(payload.workflow_job))
    ELSE Raise(<<>>)

-----------------------------------------------------------------------------
(* process_message: dispatch and the two try/except levels                 *)

\* Variant of Dispatch: the last branch handles every other type as a job.
DispatchAllAsJob(p, m) ==
    IF m.event_type = "workflow_run"
    THEN [handled |-> TRUE,
          plan |-> IF p = "frontend" THEN FeProcessWorkflowRun(m.payload)
                                     ELSE BeProcessWorkflowRun(m.payload)]
    ELSE [handled |-> TRUE,
          plan |-> IF p = "frontend" THEN FeProcessWorkflowJob(m.payload)
                                     ELSE BeProcessWorkflowJob(m.payload)]

\* The body of process_message's try block selects the handler by event type;
\* any other type returns True without touching the adapter.
Dispatch(p, m) ==
    IF m.event_type = "workflow_run"
    THEN [handled |-> TRUE,
          plan |-> IF p = "frontend" THEN FeProcessWorkflowRun(m.payload)
                                     ELSE BeProcessWorkflowRun(m.payload)]
    ELSE IF m.event_type = "workflow_job"
    THEN [handled |-> TRUE,
          plan |-> IF p = "frontend" THEN FeProcessWorkflowJob(m.payload)
                                     ELSE BeProcessWorkflowJob(m.payload)]
    ELSE [handled |-> FALSE, plan |-> Return(<<>>)]

\* Outcome of a block of code: the value it returned, or that it raised.
Returned(v) == [ret |-> v, raised |-> FALSE]

Raised == [ret |-> FALSE, raised |-> TRUE]

\* Variant of Catch: no except clause.
NoCatch(o) == o

\* "except Exception as e: logger.error(...); return False"
Catch(o) == IF o.raised THEN Returned(FALSE) ELSE o

-----------------------------------------------------------------------------
(* Telemetry adapters and their transport                                  *)

\* What the adapter does during one process_message call:
\*   none   every call returns normally and the transport delivers
\*   lost   the transport fails and reports it through the exporter's return
\*          value (or on its own worker thread); the adapter returns normally
\*   raise  call number `at` raises out of the adapter
\* An adapter without a connection string never reaches the transport.
Faults(isConfigured, n) ==
    {[kind |-> "none", at |-> 0]}
    \cup (IF isConfigured
          THEN {[kind |-> "lost", at |-> 0]}
               \cup {[kind |-> "raise", at |-> k] : k \in 1 .. (IF n < MaxFaultAt THEN n ELSE MaxFaultAt)}
          ELSE {})

\* The calls actually made: all of the plan, or up to and including the call
\* that raised.
Executed(plan, f) ==
    IF f.kind = "raise" THEN SubSeq(plan.calls, 1, f.at) ELSE plan.calls

\* The calls that returned normally.
Completed(plan, f) ==
    IF f.kind = "raise" THEN SubSeq(plan.calls, 1, f.at - 1) ELSE plan.calls

\* Calls that hand something to the transport: export (shared/telemetry.py
\* line 96), track_workflow_event, track_metric and end_span
\* (backend/telemetry.py lines 171, 204, 238).
ReachesTransport(c) ==
    c.op \in {"export", "track_workflow_event", "track_metric", "end_span"}

RECURSIVE CountTransport(_)
CountTransport(cs) ==
    IF cs = <<>> THEN 0
    ELSE (IF ReachesTransport(Head(cs)) THEN 1 ELSE 0) + CountTransport(Tail(cs))

\* Emissions the transport did not deliver.
FailedEmits(isConfigured, plan, f) ==
    IF ~isConfigured THEN 0
    ELSE IF f.kind = "lost" THEN CountTransport(plan.calls)
    ELSE IF f.kind = "raise" THEN 1
    ELSE 0

\* Trace id of the SpanContext the Tracer creates for itself at construction.
BootTrace == [src |-> "random", of |-> PyStr("int", 0)]

\* _generate_trace_id, backend/telemetry.py lines 173-186: the first 32 hex
\* digits of sha256(str(workflow_run_id)).
GenerateTraceId(workflow_run_id) == [src |-> "sha256_32", of |-> workflow_run_id]

\* start_workflow_span, lines 81-94: the derived trace id is written into the
\* span context of the tracer the span belongs to.
CtxAfter(ctx, c) ==
    IF c.op = "start_workflow_span" THEN GenerateTraceId(PyStr("int", c.run_id)) ELSE ctx

\* Spans handed to the exporter by the completed calls, each with the trace
\* id its tracer's span context holds at that moment: track_workflow_event
\* (lines 203-209) exports on leaving the with block, end_span (lines 168-171)
\* exports the span it is given.
RECURSIVE SpansOf(_, _)
SpansOf(ctx, cs) ==
    IF cs = <<>> THEN <<>>
    ELSE LET c    == Head(cs)
             ctx2 == CtxAfter(ctx, c)
             here == IF c.op \in {"track_workflow_event", "end_span"}
                     THEN <<[name |-> c.name, run_id |-> c.run_id, step |-> c.step,
                             trace_id |-> ctx2]>>
                     ELSE <<>>
         IN  here \o SpansOf(ctx2, Tail(cs))

RECURSIVE FinalCtx(_, _)
FinalCtx(ctx, cs) ==
    IF cs = <<>> THEN ctx ELSE FinalCtx(CtxAfter(ctx, Head(cs)), Tail(cs))

\* Variant of ParentName: every child span hangs off the run span.
ParentNameFlat(name) ==
    IF name \in {"WorkflowJob", "WorkflowStep"} THEN "WorkflowRun" ELSE ""

\* The span _send_job_telemetry passes as parent_span to start_child_span
\* (backend/processor.py lines 258 and 289), by the kind of span started:
\* the job span is started under workflow_span, a step span under job_span.
ParentName(name) ==
    IF name = "WorkflowJob" THEN "WorkflowRun"
    ELSE IF name = "WorkflowStep" THEN "WorkflowJob"
    ELSE ""

\* The span object a local variable of _send_job_telemetry (workflow_span,
\* job_span, step_span) holds: the last span started under that name, as its
\* start record, or <<>> when none was started.
RECURSIVE LastStarted(_, _)
LastStarted(log, name) ==
    IF log = <<>> THEN <<>>
    ELSE LET e == log[Len(log)]
         IN  IF e.ev = "start" /\ e.name = name THEN <<e>>
             ELSE LastStarted(SubSeq(log, 1, Len(log) - 1), name)

\* Span starts and ends of the calls that returned, with a tracer present.
\* start_workflow_span (telemetry.py lines 81-94) and start_child_span (lines
\* 130-146) each construct a new Span, which draws its own span id; the model
\* names it by the ordinal k of the constructing call.  A child span records
\* the parent it was given and shares its parent's context_tracer, hence the
\* trace id of that tracer's span context.  end_span (lines 168-171) finishes
\* and exports the span it is given.
RECURSIVE SpanLog(_, _, _, _)
SpanLog(ctx, cs, k, log) ==
    IF cs = <<>> THEN log
    ELSE LET c      == Head(cs)
             ctx2   == CtxAfter(ctx, c)
             parent == LastStarted(log, ParentName(c.name))
             own    == LastStarted(log, c.name)
             here   ==
                 IF c.op = "start_workflow_span"
                 THEN <<[ev |-> "start", name |-> c.name, span_id |-> k, parent |-> 0,
                         trace_id |-> ctx2, run_id |-> c.run_id, step |-> c.step]>>
                 ELSE IF c.op = "start_child_span" /\ parent # <<>>
                 THEN <<[ev |-> "start", name |-> c.name, span_id |-> k,
                         parent |-> parent[1].span_id,
                         trace_id |-> ctx2, run_id |-> c.run_id, step |-> c.step]>>
                 ELSE IF c.op = "end_span" /\ own # <<>>
                 THEN <<[own[1] EXCEPT !.ev = "end", !.trace_id = ctx2]>>
                 ELSE <<>>
         IN  SpanLog(ctx2, Tail(cs), k + 1, log \o here)

\* The call writes a log record carrying the emission's name, properties and
\* measurements: track_workflow_event (lines 211-221) and track_metric (lines
\* 238-246) always do; start_workflow_span (lines 96-106) and start_child_span
\* (lines 148-158) do when there is no tracer; end_span writes nothing; export
\* (shared/telemetry.py lines 49-51) writes only "No exporter configured,
\* skipping metric export" when there is no exporter.
WritesLogRecord(isConfigured, c) ==
    \/ c.op \in {"track_workflow_event", "track_metric"}
    \/ c.op \in {"start_workflow_span", "start_child_span"} /\ ~isConfigured

RECURSIVE LogsOf(_, _)
LogsOf(isConfigured, cs) ==
    IF cs = <<>> THEN <<>>
    ELSE (IF WritesLogRecord(isConfigured, Head(cs)) THEN <<Head(cs)>> ELSE <<>>)
         \o LogsOf(isConfigured, Tail(cs))

-----------------------------------------------------------------------------
(* Signature verifier: src/shared/github_signature.py                      *)

\* A text is a sequence of pieces, each a literal or the hex digest of an
\* HMAC-SHA256; the pieces are what startswith, slicing and comparison of
\* the code tell apart.
Lit(x) == [k |-> x, s |-> "", b |-> ""]

\* hmac.new(key=secret, msg=payload, digestmod=sha256).hexdigest(), lines
\* 45-49: lower-case hex text, taken to differ for different (secret, payload).
HexHmac(secret, payload) == [k |-> "hexdigest", s |-> secret, b |-> payload]

Secrets == {"", "s", "t"}

\* Raw request bodies.
Bodies == {"b1", "b2", "b3"}

\* Text that may follow the scheme prefix: a digest, ASCII text that is no
\* digest, or text with a character outside ASCII (header bytes above 0x7f).
Remainders ==
    {<<HexHmac(k, b)>> : k \in Secrets \ {""}, b \in Bodies}
    \cup {<<>>, <<Lit("junk")>>, <<Lit("nonascii")>>}

HeaderTexts ==
    {<<>>, <<Lit("junk")>>}
    \cup {<<Lit(pre)>> \o r : pre \in {"sha256=", "sha1="}, r \in Remainders}

\* The X-Hub-Signature-256 header: absent or a text.
Headers == Opt(HeaderTexts)

IsAscii(text) == \A i \in 1 .. Len(text) : text[i].k # "nonascii"

\* hmac.compare_digest on two str values, line 52: it raises TypeError when
\* either holds a non-ASCII character, else tells whether they are equal.
CompareDigest(a, b) ==
    IF IsAscii(a) /\ IsAscii(b) THEN Returned(a = b) ELSE Raised

\* Variant of ValidateGithubSignature: the header is examined before the
\* secret.
ValidateGithubSignatureHeaderFirst(payload, signature_header, secret) ==
    IF ~Present(signature_header) \/ Val(signature_header) = <<>>
    THEN Returned(FALSE)
    ELSE IF Head(Val(signature_header)) # Lit("sha256=")
    THEN Returned(FALSE)
    ELSE IF secret = ""
    THEN Returned(TRUE)
    ELSE CompareDigest(<<HexHmac(secret, payload)>>, Tail(Val(signature_header)))

\* validate_github_signature, lines 10-57.
ValidateGithubSignature(payload, signature_header, secret) ==
    IF secret = ""
    THEN Returned(TRUE)
    ELSE IF ~Present(signature_header) \/ Val(signature_header) = <<>>
    THEN Returned(FALSE)
    ELSE IF Head(Val(signature_header)) # Lit("sha256=")
    THEN Returned(FALSE)
    ELSE CompareDigest(<<HexHmac(secret, payload)>>, Tail(Val(signature_header)))

SigIdle ==
    sig = [called |-> FALSE, payload |-> "", signature_header |-> None, secret |-> "",
           out |-> Returned(FALSE)]

\* One call of validate_github_signature.
Validate ==
    /\ ~sig.called
    /\ \E payload \in Bodies, signature_header \in Headers, secret \in Secrets :
           sig' = [called |-> TRUE, payload |-> payload,
                   signature_header |-> signature_header, secret |-> secret,
                   out |-> ValidateGithubSignature(payload, signature_header, secret)]
    /\ UNCHANGED <<procVars, httpVars, workerVars, poolVars, aggVars, concVars>>

\* The caller has taken the outcome.
ValidateReturn ==
    /\ sig.called
    /\ sig' = [called |-> FALSE, payload |-> "", signature_header |-> None,
               secret |-> "", out |-> Returned(FALSE)]
    /\ UNCHANGED <<procVars, httpVars, workerVars, poolVars, aggVars, concVars>>

-----------------------------------------------------------------------------
(* Pool-name extraction: get_mdp_name of src/frontend/processor.py         *)

MaxLabels == 2

MaxLabelLen == 3

\* The literal the labels are searched for.
Marker == "ManagedDevOps.Pool="

\* A label is a text made of pieces: the marker, or text that neither
\* holds the marker nor completes one with its neighbours.
LabelPieces == {Marker, "a", "b"}

Labels == UNION {[1 .. n -> LabelPieces] : n \in 0 .. MaxLabelLen}

LabelLists == UNION {[1 .. n -> Labels] : n \in 0 .. MaxLabels}

\* "ManagedDevOps.Pool=" in value, line 239.
HasMarker(value) == \E i \in 1 .. Len(value) : value[i] = Marker

FirstMarker(value) ==
    CHOOSE i \in 1 .. Len(value) :
        value[i] = Marker /\ \A j \in 1 .. i - 1 : value[j] # Marker

\* value.split("ManagedDevOps.Pool="), line 240: the texts between the
\* occurrences of the marker, in order.
RECURSIVE SplitMarker(_)
SplitMarker(value) ==
    IF ~HasMarker(value)
    THEN <<value>>
    ELSE <<SubSeq(value, 1, FirstMarker(value) - 1)>>
         \o SplitMarker(SubSeq(value, FirstMarker(value) + 1, Len(value)))

\* get_mdp_name, lines 227-242.
GetMdpName(labels) ==
    IF labels = <<>>
    THEN <<>>
    ELSE IF \E i \in 1 .. Len(labels) : HasMarker(labels[i])
    THEN LET i == CHOOSE k \in 1 .. Len(labels) :
                      HasMarker(labels[k]) /\ \A j \in 1 .. k - 1 : ~HasMarker(labels[j])
         IN  SplitMarker(labels[i])[2]
    ELSE <<>>

PoolIdle == mdp = [called |-> FALSE, labels |-> <<>>, out |-> <<>>]

\* One call of get_mdp_name.
GetMdpNameCall ==
    /\ ~mdp.called
    /\ \E labels \in LabelLists :
           mdp' = [called |-> TRUE, labels |-> labels, out |-> GetMdpName(labels)]
    /\ UNCHANGED <<procVars, httpVars, workerVars, sigVars, aggVars, concVars>>

\* The caller has taken the pool name.
GetMdpNameReturn ==
    /\ mdp.called
    /\ mdp' = [called |-> FALSE, labels |-> <<>>, out |-> <<>>]
    /\ UNCHANGED <<procVars, httpVars, workerVars, sigVars, aggVars, concVars>>

-----------------------------------------------------------------------------
(* Metric aggregator.  The frontend takes MetricValue from                 *)
(* src.frontend.models and its client from src.frontend.telemetry, neither *)
(* of which the repository ships; the accumulator is written from its      *)
(* description.                                                            *)

MaxObservations == 3

AggNames == {"duration_seconds", "step_duration_seconds"}

AggValues == {10, 20, 30}

\* Quotient of two integers, kept as a fraction.
Ratio(n, d) == [num |-> n, den |-> d]

SameRatio(q, r) == q.num * r.den = r.num * q.den

Min2(a, b) == IF a <= b THEN a ELSE b

Max2(a, b) == IF a >= b THEN a ELSE b

\* A name nothing was observed under.
Unobserved ==
    [min |-> 0, max |-> 0, sum |-> 0, count |-> 0,
     representative_value |-> Ratio(0, 1), values |-> <<>>]

\* Variant of Observe: the representative value is the latest observation.
ObserveKeepLatest(a, name, value) ==
    IF a[name].count = 0
    THEN [a EXCEPT ![name] =
              [min |-> value, max |-> value, sum |-> value, count |-> 1,
               representative_value |-> Ratio(value, 1), values |-> <<value>>]]
    ELSE [a EXCEPT ![name] =
              [min |-> Min2(@.min, value), max |-> Max2(@.max, value),
               sum |-> @.sum + value, count |-> @.count + 1,
               representative_value |-> Ratio(value, 1),
               values |-> Append(@.values, value)]]

\* observe(name, value, timestamp, attributes): the first observation of a
\* name initialises its entry, later ones fold into it.
Observe(a, name, value) ==
    IF a[name].count = 0
    THEN [a EXCEPT ![name] =
              [min |-> value, max |-> value, sum |-> value, count |-> 1,
               representative_value |-> Ratio(value, 1), values |-> <<value>>]]
    ELSE [a EXCEPT ![name] =
              [min |-> Min2(@.min, value), max |-> Max2(@.max, value),
               sum |-> @.sum + value, count |-> @.count + 1,
               representative_value |-> Ratio(@.sum + value, @.count + 1),
               values |-> Append(@.values, value)]]

RECURSIVE SumOf(_)
SumOf(vs) == IF vs = <<>> THEN 0 ELSE Head(vs) + SumOf(Tail(vs))

Observations(a) == a["duration_seconds"].count + a["step_duration_seconds"].count

AggIdle == agg = [n \in AggNames |-> Unobserved]

\* One observation during a derivation call.
AggObserve ==
    /\ Observations(agg) < MaxObservations
    /\ \E name \in AggNames, value \in AggValues : agg' = Observe(agg, name, value)
    /\ UNCHANGED <<procVars, httpVars, workerVars, sigVars, poolVars, concVars>>

\* The derivation call ends and its accumulator is discarded.
AggDiscard ==
    /\ Observations(agg) > 0
    /\ agg' = [n \in AggNames |-> Unobserved]
    /\ UNCHANGED <<procVars, httpVars, workerVars, sigVars, poolVars, concVars>>

-----------------------------------------------------------------------------
(* Two job events on one EventProcessor and one TelemetryClient at once:   *)
(* src/backend/processor.py _send_job_telemetry, src/backend/telemetry.py  *)

\* The callers, and the run each one's job event belongs to.
Callers == {1, 2}

RunOf(c) == IF c = 1 THEN 101 ELSE 102

\* Complete job events of caller c's run.
ConcJobs(c) ==
    {j \in WorkflowJobs :
        /\ j.id.t = "int" /\ j.run_id = RunOf(c) /\ j.status = "completed"
        /\ j.created_at = Some(0) /\ j.started_at = Some(0) /\ j.completed_at = Some(1)
        /\ \A i \in 1 .. Len(j.steps) :
              j.steps[i].started_at = Some(0) /\ j.steps[i].completed_at = Some(1)}

ConcIdle == conc = [active |-> FALSE, plans |-> <<<<>>, <<>>>>, pos |-> <<0, 0>>, out |-> <<>>]

\* Both callers enter _send_job_telemetry, each with its own job.
ConcStart ==
    /\ ~conc.active
    /\ configured
    /\ proc = "backend"
    /\ phase = "ready"
    /\ \E j1 \in ConcJobs(1), j2 \in ConcJobs(2) :
           conc' = [active |-> TRUE,
                    plans |-> <<SendJobTelemetry(j1), SendJobTelemetry(j2)>>,
                    pos |-> <<0, 0>>, out |-> <<>>]
    /\ UNCHANGED <<procVars, httpVars, workerVars, sigVars, poolVars, aggVars>>

\* Caller c makes its next call on the TelemetryClient.  start_workflow_span
\* (telemetry.py lines 81-94) writes the derived trace id into the span
\* context of the client's one tracer; end_span (lines 168-171) exports the
\* span with the trace id that span context holds.  The parent of a span is
\* the span held by a local variable of the caller's own frame
\* (processor.py lines 258 and 289).
ConcStep(c) ==
    /\ conc.active
    /\ conc.pos[c] < Len(conc.plans[c])
    /\ LET call == conc.plans[c][conc.pos[c] + 1]
            ctx2 == CtxAfter(tracer_ctx, call)
            here == IF call.op \in {"track_workflow_event", "end_span"}
                    THEN <<[caller |-> c, name |-> call.name, run_id |-> call.run_id,
                            step |-> call.step, trace_id |-> ctx2,
                            parent |-> [caller |-> c, name |-> ParentName(call.name)]]>>
                    ELSE <<>>
       IN  /\ tracer_ctx' = ctx2
           /\ conc' = [conc EXCEPT !.pos[c] = @ + 1, !.out = @ \o here]
    /\ UNCHANGED <<configured, proc, phase, msg, fault, calls, spans, failed_emits,
                   result, propagated, span_log, local_logs>>
    /\ UNCHANGED <<httpVars, workerVars, sigVars, poolVars, aggVars>>

\* Both calls have returned.
ConcFinish ==
    /\ conc.active
    /\ \A c \in Callers : conc.pos[c] = Len(conc.plans[c])
    /\ conc' = [active |-> FALSE, plans |-> <<<<>>, <<>>>>, pos |-> <<0, 0>>, out |-> <<>>]
    /\ UNCHANGED <<procVars, httpVars, workerVars, sigVars, poolVars, aggVars>>

UnitIdle == SigIdle /\ PoolIdle /\ AggIdle /\ ConcIdle

-----------------------------------------------------------------------------
(* The state machine                                                       *)

NoMessage == [event_type |-> "", payload |-> [none |-> 0]]

ProcInit ==
    /\ configured \in BOOLEAN
    /\ tracer_ctx = BootTrace
    /\ proc \in {"frontend", "backend"}
    /\ phase = "ready"
    /\ msg = NoMessage
    /\ fault = [kind |-> "none", at |-> 0]
    /\ calls = <<>>
    /\ spans = <<>>
    /\ failed_emits = 0
    /\ result = TRUE
    /\ propagated = FALSE
    /\ span_log = <<>>
    /\ local_logs = <<>>

NoRequest == [body |-> "", payload |-> [none |-> 0], event |-> None, signature |-> None]

HttpIdle == webhook_secret = "" /\ req = NoRequest /\ response = 0

\* Longest queue of the backend.
MaxQueue == 2

\* A message is delivered at most MaxDeliveries times.
MaxDeliveries == 2

\* max_messages_per_batch: the most messages one receive_messages call returns.
MaxBatch == 2

MsgIds == 1 .. MaxQueue

\* No receive_messages call to speak of.
NoReceive == [got |-> <<>>, error |-> "none", del |-> "ok"]

WorkerIdle ==
    /\ running = FALSE
    /\ pc = "stopped"
    /\ queue = [i \in MsgIds |-> [content |-> "issues", state |-> "deleted", deliveries |-> 0]]
    /\ batch = <<>>
    /\ idx = 0
    /\ wlog = <<>>
    /\ caught = FALSE
    /\ rlog = NoReceive

Init == ProcInit /\ UnitIdle /\ HttpIdle /\ WorkerIdle

\* One call of EventProcessor.process_message(m) on processor p, to its return.
ProcessMessage(p, m) ==
    LET d    == Dispatch(p, m)
        plan == d.plan
    IN  \E f \in Faults(configured, Len(plan.calls)) :
             LET body  == IF f.kind = "raise" \/ plan.end = "raise"
                          THEN Raised ELSE Returned(TRUE)
                 \* the handler's own try/except, then process_message's
                 inner == IF d.handled THEN Catch(body) ELSE body
                 outer == Catch(inner)
                 done  == Completed(plan, f)
                 hier  == p = "backend" /\ configured
             IN  /\ phase' = "returned"
                 /\ msg' = m
                 /\ fault' = f
                 /\ calls' = Executed(plan, f)
                 /\ spans' = IF hier THEN SpansOf(tracer_ctx, done) ELSE <<>>
                 /\ tracer_ctx' = IF hier THEN FinalCtx(tracer_ctx, done) ELSE tracer_ctx
                 /\ failed_emits' = FailedEmits(configured, plan, f)
                 /\ result' = outer.ret
                 /\ propagated' = outer.raised
                 /\ span_log' = IF hier THEN SpanLog(tracer_ctx, done, 1, <<>>) ELSE <<>>
                 /\ local_logs' = LogsOf(configured, done)
                 /\ UNCHANGED <<configured, proc>>

\* What a processor on its own leaves alone.
otherVars == <<unitVars, httpVars, workerVars>>

FrontendProcessMessage ==
    /\ proc = "frontend"
    /\ phase = "ready"
    /\ \E m \in Messages : ProcessMessage("frontend", m)
    /\ UNCHANGED otherVars

BackendProcessMessage ==
    /\ proc = "backend"
    /\ phase = "ready"
    /\ \E m \in Messages : ProcessMessage("backend", m)
    /\ UNCHANGED otherVars

\* The processor waits for its next message.  Only the adapter (its
\* configuration and the tracer's span context) is kept.
ResetCall ==
    /\ phase' = "ready"
    /\ msg' = NoMessage
    /\ fault' = [kind |-> "none", at |-> 0]
    /\ calls' = <<>>
    /\ spans' = <<>>
    /\ failed_emits' = 0
    /\ result' = TRUE
    /\ propagated' = FALSE
    /\ span_log' = <<>>
    /\ local_logs' = <<>>
    /\ UNCHANGED <<configured, tracer_ctx, proc>>

\* The caller has taken the result.
AwaitNextMessage ==
    /\ phase = "returned"
    /\ ResetCall
    /\ UNCHANGED otherVars

Next == FrontendProcessMessage \/ BackendProcessMessage \/ AwaitNextMessage

Spec == Init /\ [][Next]_vars

-----------------------------------------------------------------------------
(* Webhook endpoint: src/frontend/app.py                                   *)

\* request.json(), lines 94-101, by body: "b1" is no JSON text, "b2" is a
\* JSON text that is not an object (an array), "b3" is a JSON object.
JsonKind(body) ==
    IF body = "b1" THEN "invalid" ELSE IF body = "b2" THEN "array" ELSE "object"

\* JSON objects sent to the endpoint: complete run and job payloads, with a
\* valid or an invalid id, and completed runs that lack created_at.
WebPayloads ==
    FullRunPayloads \cup FullJobPayloads
    \cup {p \in RunPayloads : /\ p.workflow_run.status = "completed"
                              /\ Present(p.workflow_run.conclusion)
                              /\ ~Present(p.workflow_run.created_at)
                              /\ Present(p.workflow_run.run_started_at)
                              /\ Present(p.workflow_run.updated_at)}

\* X-GitHub-Event: absent, empty, or an event name.
EventHeaders == Opt({"", "workflow_run", "workflow_job", "issues"})

Requests ==
    {[body |-> b, payload |-> [none |-> 0], event |-> e, signature |-> h] :
        b \in {"b1", "b2"}, e \in EventHeaders, h \in Headers}
    \cup {[body |-> "b3", payload |-> p, event |-> e, signature |-> h] :
        p \in WebPayloads, e \in EventHeaders, h \in Headers}

\* Line 103: event_type = x_github_event or "unknown".
EventType(r) == IF Present(r.event) /\ Val(r.event) # "" THEN Val(r.event) ELSE "unknown"

\* receive_webhook up to line 119: the status answered before the event is
\* processed, or 0 when the handler goes on to process it.  An exception no
\* handler catches (validate_github_signature raising at line 82, or
\* payload.get at line 110 on a JSON value that is not an object) is answered
\* by the framework with 500.
WebhookStatusBeforeProcessing(r, secret) ==
    LET v == ValidateGithubSignature(r.body, r.signature, secret)
    IN  IF v.raised THEN 500
        ELSE IF ~v.ret THEN 401
        ELSE IF JsonKind(r.body) = "invalid" THEN 400
        ELSE IF JsonKind(r.body) = "array" THEN 500
        ELSE IF EventType(r) \notin {"workflow_run", "workflow_job"} THEN 200
        ELSE 0

\* receive_webhook, lines 64-150.  event_processor exists only when the
\* service was started with a connection string (lifespan, lines 38-43).
ReceiveWebhook ==
    /\ response = 0
    /\ phase = "ready"
    /\ \E r \in Requests :
          LET early == WebhookStatusBeforeProcessing(r, webhook_secret)
          IN  /\ req' = r
              /\ IF early # 0
                 THEN response' = early /\ UNCHANGED procVars
                 ELSE IF configured
                 THEN /\ ProcessMessage("frontend",
                                        [event_type |-> EventType(r), payload |-> r.payload])
                      /\ response' = IF result' /\ ~propagated' THEN 202 ELSE 500
                 ELSE response' = 202 /\ UNCHANGED procVars
    /\ UNCHANGED <<webhook_secret, unitVars, workerVars>>

\* The answer has been sent; the endpoint waits for the next request.
WebhookAnswered ==
    /\ response # 0
    /\ req' = NoRequest
    /\ response' = 0
    /\ ResetCall
    /\ UNCHANGED <<webhook_secret, unitVars, workerVars>>

WebInit ==
    /\ ProcInit
    /\ proc = "frontend"
    /\ UnitIdle
    /\ webhook_secret \in Secrets
    /\ req = NoRequest
    /\ response = 0
    /\ WorkerIdle

WebNext == ReceiveWebhook \/ WebhookAnswered

WebSpec == WebInit /\ [][WebNext]_vars

-----------------------------------------------------------------------------
(* Backend service: src/backend/app.py, src/shared/queue_client.py         *)

\* What a queue message holds: a QueueMessage with a complete run event, a
\* run event whose payload lacks its id, an event of another type, or content
\* that does not decode to a QueueMessage.
WorkerContents == {"run_ok", "run_malformed", "issues", "unparseable"}

WorkerRun(id) ==
    [workflow_run |-> [id |-> id, name |-> "CI", status |-> "completed",
                       conclusion |-> Some("success"), created_at |-> Some(0),
                       run_started_at |-> Some(0), updated_at |-> Some(1)]]

\* QueueMessage.model_validate_json(content), queue_client.py line 111.
WorkerMessage(c) ==
    IF c = "run_ok"
    THEN [event_type |-> "workflow_run", payload |-> WorkerRun([t |-> "int", v |-> 101])]
    ELSE IF c = "run_malformed"
    THEN [event_type |-> "workflow_run", payload |-> WorkerRun([t |-> "missing", v |-> 0])]
    ELSE [event_type |-> "issues", payload |-> WorkerRun([t |-> "int", v |-> 101])]

\* The visible messages from position i on, in queue order.
RECURSIVE VisibleFrom(_, _)
VisibleFrom(q, i) ==
    IF i > MaxQueue THEN <<>>
    ELSE (IF q[i].state = "visible" THEN <<i>> ELSE <<>>) \o VisibleFrom(q, i + 1)

Range(f) == {f[i] : i \in DOMAIN f}

IsParseable(i) == queue[i].content # "unparseable"

\* Variant of AfterBatch: start() has no except clause around
\* _process_messages.
AfterBatchNoCatch(raised) == IF raised THEN "crashed" ELSE "sleep"

\* start(), lines 50-57: whether _process_messages returned or raised, the
\* loop goes on to sleep the poll interval.
AfterBatch(raised) == "sleep"

\* Variant of ShouldDelete: the message is deleted whatever the result.
ShouldDeleteAlways(success) == TRUE

\* _process_messages, lines 93-94: delete_message is called when
\* process_message returned True.
ShouldDelete(success) == success

\* Variant of NextInBatch: the loop body has no except clause, an exception
\* ends the batch.
NextInBatchAbortOnError(i, n, raised) ==
    IF raised \/ i > n THEN "sleep" ELSE "process"

\* _process_messages, lines 90-106: the for loop goes on to message i of n
\* whether or not the body raised for the message before.
NextInBatch(i, n, raised) == IF i > n THEN "sleep" ELSE "process"

\* Variant of Parsed: every dequeued message is returned.
ParsedKeepAll(got) == got

\* queue_client.py lines 107-116: the messages whose content decodes and
\* validates as a QueueMessage are appended to the result, in order.
Parsed(got) == SelectSeq(got, IsParseable)

\* receive_messages, queue_client.py lines 87-119, called at app.py lines
\* 79-82.  The queue hands over the first n visible messages, each hidden for
\* the visibility timeout; content that does not parse is deleted at once
\* (line 116; delete_message swallows an AzureError and the message stays),
\* the rest is returned.  An AzureError from the queue (outcome
\* "azure_error", after n messages) ends the listing with what was parsed so
\* far; any other exception (outcome "raise") leaves receive_messages and
\* _process_messages.
ReceiveMessages ==
    /\ pc = "fetch"
    /\ \E n \in 0 .. MaxBatch, outcome \in {"ok", "azure_error", "raise"},
          del \in {"ok", "azure_error"} :
          LET avail  == VisibleFrom(queue, 1)
              got    == SubSeq(avail, 1, n)
              parsed == Parsed(got)
          IN  /\ n <= Len(avail)
              /\ (\A k \in 1 .. Len(got) : IsParseable(got[k])) => del = "ok"
              /\ queue' = [i \in MsgIds |->
                             IF i \in Range(got)
                             THEN [queue[i] EXCEPT
                                     !.deliveries = @ + 1,
                                     !.state = IF ~IsParseable(i) /\ del = "ok"
                                               THEN "deleted" ELSE "invisible"]
                             ELSE queue[i]]
              /\ batch' = IF outcome # "raise" THEN parsed ELSE <<>>
              /\ idx' = 1
              /\ wlog' = <<>>
              /\ caught' = (outcome = "raise")
              /\ rlog' = [got |-> got,
                          error |-> IF outcome = "ok" THEN "none" ELSE outcome,
                          del |-> del]
              /\ pc' = IF outcome # "raise" /\ parsed # <<>>
                       THEN "process" ELSE AfterBatch(outcome = "raise")
    /\ UNCHANGED <<running, procVars, unitVars, httpVars>>

\* app.py line 92: process_message on the message at idx.
WorkerProcess ==
    /\ pc = "process"
    /\ phase = "ready"
    /\ ProcessMessage("backend", WorkerMessage(queue[batch[idx]].content))
    /\ pc' = "decide"
    /\ rlog' = NoReceive
    /\ UNCHANGED <<running, queue, batch, idx, wlog, caught, unitVars, httpVars>>

\* app.py lines 93-106: delete the message on success, log otherwise; an
\* exception in the body is logged and the loop goes on.  delete_message
\* (queue_client.py lines 121-135) deletes, or swallows an AzureError and
\* returns False, or lets another exception through.
WorkerDecide ==
    /\ pc = "decide"
    /\ LET success == result /\ ~propagated
           called  == ~propagated /\ ShouldDelete(success)
       IN  \E d \in (IF called THEN {"ok", "azure_error", "raise"} ELSE {"none"}) :
              LET raised == propagated \/ d = "raise"
              IN  /\ queue' = IF d = "ok"
                              THEN [queue EXCEPT ![batch[idx]].state = "deleted"]
                              ELSE queue
                  /\ wlog' = Append(wlog, [id |-> batch[idx], success |-> success,
                                           raised |-> raised, delete_called |-> called,
                                           deleted |-> d = "ok"])
                  /\ idx' = idx + 1
                  /\ pc' = NextInBatch(idx + 1, Len(batch), raised)
    /\ ResetCall
    /\ UNCHANGED <<running, batch, caught, rlog, unitVars, httpVars>>

\* Variant of AfterSleep: the loop is a while True.
AfterSleepForever(isRunning) == "fetch"

\* start(), line 50: while self._running.
AfterSleep(isRunning) == IF isRunning THEN "fetch" ELSE "stopped"

\* start(), lines 50 and 57: after the sleep the loop tests _running.  The
\* batch of the call that ended is gone.
WorkerSleep ==
    /\ pc = "sleep"
    /\ pc' = AfterSleep(running)
    /\ batch' = <<>>
    /\ idx' = 0
    /\ wlog' = <<>>
    /\ rlog' = NoReceive
    /\ UNCHANGED <<running, queue, caught, procVars, unitVars, httpVars>>

\* _handle_signal, lines 67-75: SIGTERM or SIGINT clears _running.
WorkerSignal ==
    /\ running
    /\ pc \notin {"stopped", "crashed"}
    /\ running' = FALSE
    /\ UNCHANGED <<pc, queue, batch, idx, wlog, caught, rlog, procVars, unitVars, httpVars>>

\* The queue service: the visibility timeout of a received message that was
\* not deleted runs out and the message can be received again.
VisibilityTimeout ==
    /\ pc = "fetch"
    /\ \E i \in MsgIds :
          /\ queue[i].state = "invisible"
          /\ queue[i].deliveries < MaxDeliveries
          /\ queue' = [queue EXCEPT ![i].state = "visible"]
    /\ UNCHANGED <<running, pc, batch, idx, wlog, caught, rlog, procVars, unitVars, httpVars>>

WorkerInit ==
    /\ ProcInit
    /\ proc = "backend"
    /\ UnitIdle
    /\ HttpIdle
    /\ running = TRUE
    /\ pc = "fetch"
    /\ queue \in [MsgIds -> [content : WorkerContents, state : {"visible"},
                              deliveries : {0}]]
    /\ batch = <<>>
    /\ idx = 0
    /\ wlog = <<>>
    /\ caught = FALSE
    /\ rlog = NoReceive

WorkerNext ==
    \/ ReceiveMessages
    \/ WorkerProcess
    \/ WorkerDecide
    \/ WorkerSleep
    \/ WorkerSignal
    \/ VisibilityTimeout

WorkerSpec == WorkerInit /\ [][WorkerNext]_vars

\* The loop is one thread of a sequential program: whichever statement it
\* stands at, it goes on to execute it (the queue calls and time.sleep
\* return).  Signals and visibility timeouts come from outside and need not
\* happen.
WorkerFairSpec ==
    /\ WorkerSpec
    /\ WF_vars(ReceiveMessages)
    /\ WF_vars(WorkerProcess)
    /\ WF_vars(WorkerDecide)
    /\ WF_vars(WorkerSleep)

\* The verifier on its own: every call of validate_github_signature.
SigNext == Validate \/ ValidateReturn

SigSpec == Init /\ [][SigNext]_vars

ConcNext == ConcStart \/ (\E c \in Callers : ConcStep(c)) \/ ConcFinish

ConcSpec == Init /\ [][ConcNext]_vars

AggNext == AggObserve \/ AggDiscard

AggSpec == Init /\ [][AggNext]_vars

PoolNext == GetMdpNameCall \/ GetMdpNameReturn

PoolSpec == Init /\ [][PoolNext]_vars

-----------------------------------------------------------------------------
(* Reading a returned call                                                 *)

Done == phase = "returned"

Recognised == msg.event_type \in {"workflow_run", "workflow_job"}

IsRunEvent ==
    Done /\ msg.event_type = "workflow_run" /\ ValidRunEvent(msg.payload)

IsJobEvent ==
    Done /\ msg.event_type = "workflow_job" /\ ValidJobEvent(msg.payload)

TheRun == msg.payload.workflow_run

TheJob == msg.payload.workflow_job

IsRunDurationMetric(c) ==
    \/ c.op = "export" /\ c.type = "workflow_run"
    \/ c.op = "track_metric" /\ c.name = "workflow_duration_seconds"

IsJobDurationMetric(c) ==
    \/ c.op = "export" /\ c.type = "workflow_job"
    \/ c.op = "track_metric" /\ c.name = "job_duration_seconds"

IsStepDurationMetric(c) ==
    \/ c.op = "export" /\ c.type = "workflow_job_step"
    \/ c.op = "track_metric" /\ c.name = "step_duration_seconds"

RunDurationMetrics == SelectSeq(calls, IsRunDurationMetric)

JobDurationMetrics == SelectSeq(calls, IsJobDurationMetric)

StepDurationMetrics == SelectSeq(calls, IsStepDurationMetric)

RunBoundsPresent == Present(TheRun.run_started_at) /\ Present(TheRun.updated_at)

JobBoundsPresent == Present(TheJob.started_at) /\ Present(TheJob.completed_at)

StepBoundsPresent(st) == Present(st.started_at) /\ Present(st.completed_at)

\* <<number, duration>> of the steps of a list that have both timestamps, in
\* list order.
RECURSIVE QualifyingSteps(_)
QualifyingSteps(sts) ==
    IF sts = <<>> THEN <<>>
    ELSE (IF StepBoundsPresent(Head(sts))
          THEN <<<<Head(sts).number,
                   Val(Head(sts).completed_at) - Val(Head(sts).started_at)>>>>
          ELSE <<>>)
         \o QualifyingSteps(Tail(sts))

\* <<number, value>> of the step duration metrics emitted, in emission order.
EmittedSteps ==
    [i \in 1 .. Len(StepDurationMetrics) |->
        <<StepDurationMetrics[i].step, Val(StepDurationMetrics[i].value)>>]

\* The payload of a recognised event lacks its object, or the object's id is
\* missing or is not an integer.
Malformed(payload, key) ==
    \/ key \notin DOMAIN payload
    \/ payload[key].id.t # "int"

IsPrefix(a, b) == Len(a) <= Len(b) /\ a = SubSeq(b, 1, Len(a))

-----------------------------------------------------------------------------
(* Claims                                                                  *)

\* C1: for every valid workflow_run event (the adapter and its transport
\* being healthy), a run duration metric is emitted if and only if the run is
\* completed with run_started_at and updated_at present, and its value is
\* updated_at - run_started_at; an in_progress run emits none.
C1_RunDurationIffCompleted ==
    (IsRunEvent /\ fault.kind = "none") =>
        /\ (TheRun.status = "completed" /\ RunBoundsPresent)
              <=> Len(RunDurationMetrics) = 1
        /\ Len(RunDurationMetrics) <= 1
        /\ \A i \in 1 .. Len(RunDurationMetrics) :
              RunDurationMetrics[i].value
                  = Some(Val(TheRun.updated_at) - Val(TheRun.run_started_at))

\* C2: for every valid workflow_job event the job duration metric is emitted
\* if and only if started_at and completed_at are both present, whatever the
\* status, and its value is completed_at - started_at.  It is emitted at most
\* once; the one way it is missing with both bounds present is the failure
\* path, where an earlier telemetry call for the same event raised and the
\* result is False.
C2_JobDurationIffBounds ==
    IsJobEvent =>
        /\ Len(JobDurationMetrics) <= 1
        /\ Len(JobDurationMetrics) = 1 =>
              /\ JobBoundsPresent
              /\ JobDurationMetrics[1].value
                    = Some(Val(TheJob.completed_at) - Val(TheJob.started_at))
        /\ fault.kind # "raise" => (JobBoundsPresent <=> Len(JobDurationMetrics) = 1)
        /\ (JobBoundsPresent /\ Len(JobDurationMetrics) = 0) =>
              /\ fault.kind = "raise"
              /\ ~IsJobDurationMetric(calls[Len(calls)])
              /\ result = FALSE

\* C2 witness: a job that is still in_progress yet has both bounds got its
\* duration metric from the backend processor.
C2_Witness ==
    /\ IsJobEvent
    /\ proc = "backend"
    /\ TheJob.status = "in_progress"
    /\ JobBoundsPresent
    /\ Len(JobDurationMetrics) = 1

\* C3: every step with both timestamps gets exactly one step duration metric
\* (value completed_at - started_at), in list order, whether or not the job
\* duration was computed; steps missing a timestamp emit nothing and do not
\* fail the event; the number of duration metrics is (1 if the job duration
\* was computed, else 0) plus the number of qualifying steps.  On the failure
\* path, where a telemetry call raised, the step metrics emitted up to it are
\* a prefix of that list and the result is False.
C3_StepMetricsPerQualifyingStep ==
    IsJobEvent =>
        /\ IsPrefix(EmittedSteps, QualifyingSteps(TheJob.steps))
        /\ fault.kind # "raise" =>
              /\ EmittedSteps = QualifyingSteps(TheJob.steps)
              /\ Len(JobDurationMetrics) + Len(StepDurationMetrics)
                    = (IF JobBoundsPresent THEN 1 ELSE 0)
                          + Len(QualifyingSteps(TheJob.steps))
              /\ result = TRUE
        /\ fault.kind = "raise" => result = FALSE

\* C3 witness: a job without a duration of its own, whose first step lacks a
\* timestamp and whose second step has both, emitted that one step metric and
\* succeeded.
C3_Witness ==
    /\ IsJobEvent
    /\ ~JobBoundsPresent
    /\ Len(TheJob.steps) = 2
    /\ ~StepBoundsPresent(TheJob.steps[1])
    /\ StepBoundsPresent(TheJob.steps[2])
    /\ EmittedSteps = <<<<2, Val(TheJob.steps[2].completed_at)
                              - Val(TheJob.steps[2].started_at)>>>>
    /\ result = TRUE

\* Two qualifying steps of one job, emitted in list order: a second
\* reachable case of C3.
C3_TwoStepsInOrder ==
    /\ IsJobEvent
    /\ Len(EmittedSteps) = 2
    /\ EmittedSteps[1][1] = 1
    /\ EmittedSteps[2][1] = 2

\* C4: the run queue duration is computed only when the run duration was
\* computed and created_at is present; a completed run with run_started_at
\* and updated_at but no created_at still emits its duration metric, without
\* a queue duration, and succeeds (the adapter and transport being healthy).
C4_RunWithoutCreatedAtStillEmits ==
    (IsRunEvent /\ fault.kind = "none") =>
        /\ \A i \in 1 .. Len(RunDurationMetrics) :
              Present(RunDurationMetrics[i].queue_attr) =>
                  /\ Present(RunDurationMetrics[i].value)
                  /\ Present(TheRun.created_at)
        /\ (TheRun.status = "completed" /\ RunBoundsPresent
              /\ ~Present(TheRun.created_at)) =>
                  /\ Len(RunDurationMetrics) = 1
                  /\ RunDurationMetrics[1].queue_attr = None
                  /\ result = TRUE

\* C5: a job with started_at and completed_at but no created_at reports its
\* queue duration as absent; the metric never carries 0 or another default
\* for queue_duration_seconds.
C5_NoDefaultQueueDuration ==
    (IsJobEvent /\ JobBoundsPresent /\ ~Present(TheJob.created_at)) =>
        \A i \in 1 .. Len(JobDurationMetrics) :
            JobDurationMetrics[i].queue_attr = None

\* C6: a message whose event type is neither workflow_run nor workflow_job
\* returns True and makes no telemetry emission, whatever the payload.
C6_UnknownTypeIsNoOpSuccess ==
    (Done /\ ~Recognised) =>
        /\ result = TRUE
        /\ ~propagated
        /\ calls = <<>>
        /\ spans = <<>>
        /\ failed_emits = 0

\* C6 witness: an "issues" message carrying a complete job payload was
\* handled by a configured processor.
C6_Witness ==
    /\ Done
    /\ msg.event_type = "issues"
    /\ msg.payload \in FullJobPayloads
    /\ configured
    /\ result = TRUE

\* C7: a recognised event type whose payload lacks a required field or has it
\* mistyped returns False, emits nothing and raises nothing.
C7_MalformedPayloadFailsQuietly ==
    (Done /\ Recognised /\ Malformed(msg.payload, msg.event_type)) =>
        /\ result = FALSE
        /\ ~propagated
        /\ calls = <<>>
        /\ spans = <<>>

\* C7 witness: a workflow_run payload whose id is a non-numeric string was
\* rejected.
C7_Witness ==
    /\ Done
    /\ msg.event_type = "workflow_run"
    /\ "workflow_run" \in DOMAIN msg.payload
    /\ msg.payload.workflow_run.id.t = "str"
    /\ result = FALSE

\* C8: if the transport fails while emitting for a valid run or job event,
\* process_message returns False; a transport failure is never reported as
\* True.
C8_TransportFailureReturnsFalse ==
    ((IsRunEvent \/ IsJobEvent) /\ failed_emits > 0) => result = FALSE

\* C9: process_message is total: it returns a boolean and lets no exception
\* reach its caller, for every message and whatever the adapter does.
C9_ProcessMessageTotal ==
    Done => (result \in BOOLEAN /\ ~propagated)

\* C9 witness: an adapter call raised in the middle of a valid event and the
\* call still returned False.
C9_Witness ==
    /\ Done
    /\ (IsRunEvent \/ IsJobEvent)
    /\ fault.kind = "raise"
    /\ fault.at = Len(calls)
    /\ result = FALSE
    /\ ~propagated

\* C10: in hierarchical mode every span exported for a workflow_run event or
\* a workflow_job event carries the trace id derived from that event's
\* workflow_run_id alone, so that a run event and a later job event of the
\* same run share it, whatever was processed before.
C10_TraceIdFromRunIdOnly ==
    (Done /\ proc = "backend" /\ configured) =>
        \A i \in 1 .. Len(spans) :
            spans[i].trace_id = GenerateTraceId(PyStr("int", spans[i].run_id))

-----------------------------------------------------------------------------
(* Span hierarchy of a job event                                           *)

\* A job event handled by the backend processor with a tracer present.
HierJobEvent == IsJobEvent /\ proc = "backend" /\ configured

IsStart(e) == e.ev = "start"

IsEnd(e) == e.ev = "end"

Started == SelectSeq(span_log, IsStart)

Ended == SelectSeq(span_log, IsEnd)

\* C11: in hierarchical mode, for a job event, the job span's recorded
\* parent is the run span opened for the job's workflow_run_id, every step
\* span's recorded parent is the job span, all of them carry the run span's
\* trace identity (when started and when exported), and the spans have
\* pairwise distinct span identities; without an adapter failure there is
\* one run span, one job span and one step span per qualifying step.
C11_SpanParentsAndTrace ==
    HierJobEvent =>
        /\ \A i \in 1 .. Len(Started) :
              LET e == Started[i]
              IN  /\ e.name = "WorkflowRun" =>
                        /\ i = 1
                        /\ e.run_id = TheJob.run_id
                        /\ e.trace_id = GenerateTraceId(PyStr("int", TheJob.run_id))
                  /\ e.name = "WorkflowJob" =>
                        /\ i = 2
                        /\ e.parent = Started[1].span_id
                        /\ Started[1].name = "WorkflowRun"
                  /\ e.name = "WorkflowStep" =>
                        /\ i > 2
                        /\ e.parent = Started[2].span_id
                        /\ Started[2].name = "WorkflowJob"
                  /\ e.trace_id = Started[1].trace_id
        /\ \A i \in 1 .. Len(Ended) : Ended[i].trace_id = Started[1].trace_id
        /\ \A i, j \in 1 .. Len(Started) :
              i # j => Started[i].span_id # Started[j].span_id
        /\ fault.kind # "raise" =>
              Len(Started) = 2 + Len(QualifyingSteps(TheJob.steps))

\* C11 witness: a job with two qualifying steps produced a run span, a job
\* span under it and two step spans under the job span.
C11_Witness ==
    /\ HierJobEvent
    /\ Len(Started) = 4
    /\ Started[2].parent = Started[1].span_id
    /\ Started[3].parent = Started[2].span_id
    /\ Started[4].parent = Started[2].span_id
    /\ Started[4].name = "WorkflowStep"

\* Position in span_log of the end of the span started at position i, or 0.
EndPos(i) ==
    LET S == {k \in 1 .. Len(span_log) :
                 IsEnd(span_log[k]) /\ span_log[k].span_id = span_log[i].span_id}
    IN  IF S = {} THEN 0 ELSE CHOOSE k \in S : \A l \in S : k <= l

\* C12: in hierarchical mode, for a job event, the run span is started
\* before the job span; each step span is ended before the next step span is
\* started; the job span is ended only after every step span has been ended;
\* the run span is ended only after the job span has been ended; no span is
\* ended more than once, and none before it was started.
C12_SpanOrdering ==
    HierJobEvent =>
        \A i \in 1 .. Len(span_log) :
            LET e == span_log[i]
            IN  /\ (IsStart(e) /\ e.name = "WorkflowJob") =>
                      \E j \in 1 .. i - 1 :
                          IsStart(span_log[j]) /\ span_log[j].name = "WorkflowRun"
                /\ (IsStart(e) /\ e.name = "WorkflowStep") =>
                      \A j \in 1 .. i - 1 :
                          (IsStart(span_log[j]) /\ span_log[j].name = "WorkflowStep")
                              => (EndPos(j) > j /\ EndPos(j) < i)
                /\ (IsEnd(e) /\ e.name = "WorkflowJob") =>
                      \A j \in 1 .. Len(span_log) :
                          (IsStart(span_log[j]) /\ span_log[j].name = "WorkflowStep")
                              => (j < i /\ EndPos(j) > j /\ EndPos(j) < i)
                /\ (IsEnd(e) /\ e.name = "WorkflowRun") =>
                      \A j \in 1 .. Len(span_log) :
                          (IsStart(span_log[j]) /\ span_log[j].name = "WorkflowJob")
                              => (j < i /\ EndPos(j) > j /\ EndPos(j) < i)
                /\ IsEnd(e) =>
                      /\ \E j \in 1 .. i - 1 :
                            IsStart(span_log[j]) /\ span_log[j].span_id = e.span_id
                      /\ \A j \in 1 .. Len(span_log) :
                            (IsEnd(span_log[j]) /\ span_log[j].span_id = e.span_id)
                                => j = i

\* C12 witness: a job with two qualifying steps ran to the end: run and job
\* started, each step started and ended in turn, then job and run ended.
C12_Witness ==
    /\ HierJobEvent
    /\ fault.kind = "none"
    /\ Len(span_log) = 8
    /\ span_log[3].name = "WorkflowStep" /\ IsStart(span_log[3])
    /\ span_log[4].name = "WorkflowStep" /\ IsEnd(span_log[4])
    /\ span_log[5].name = "WorkflowStep" /\ IsStart(span_log[5])
    /\ span_log[7].name = "WorkflowJob" /\ IsEnd(span_log[7])
    /\ span_log[8].name = "WorkflowRun" /\ IsEnd(span_log[8])

\* C28: every span started while a job event is processed has been ended by
\* the time process_message returns, also when a call on the client raises
\* part-way and the result is False.
C28_StartedSpansAreEnded ==
    HierJobEvent =>
        \A i \in 1 .. Len(Started) :
            \E j \in 1 .. Len(Ended) : Ended[j].span_id = Started[i].span_id

-----------------------------------------------------------------------------
(* Unconfigured telemetry backend                                          *)

\* A call that hands a metric, an event or a span's content to the adapter;
\* end_span carries no content of its own.
IsEmission(c) == c.op # "end_span"

Emissions == SelectSeq(calls, IsEmission)

\* A run event the frontend fails on whatever the configuration: completed,
\* both bounds present, created_at absent.
RunWithoutCreatedAt ==
    /\ IsRunEvent
    /\ TheRun.status = "completed"
    /\ RunBoundsPresent
    /\ ~Present(TheRun.created_at)

\* C13: with an empty connection string, a valid run or job event (other
\* than a run without created_at) is still derived in full and returns
\* success, and every emission that would have gone to the transport is
\* written as a local log record with the same name, properties and
\* measurements.
C13_UnconfiguredStillLogs ==
    ((IsRunEvent \/ IsJobEvent) /\ ~configured /\ ~RunWithoutCreatedAt) =>
        /\ result = TRUE
        /\ local_logs = Emissions


-----------------------------------------------------------------------------
(* Signature verification                                                  *)

\* What the signature header must be for the body to count as signed.
SignedHeader(payload, secret) == Some(<<Lit("sha256="), HexHmac(secret, payload)>>)

\* C19: with an empty secret, verification returns true for every body and
\* every header value, an absent or malformed header included.
C19_EmptySecretAlwaysValid ==
    (sig.called /\ sig.secret = "") => sig.out = Returned(TRUE)

\* C19 witness: no secret, and a header that is no signature at all.
C19_Witness ==
    /\ sig.called
    /\ sig.secret = ""
    /\ sig.signature_header = Some(<<Lit("junk")>>)
    /\ sig.out = Returned(TRUE)

\* C20: with a non-empty secret, verification returns true if and only if
\* the header is present, starts with "sha256=" and its remainder is the hex
\* HMAC-SHA256 of the raw body under the secret; every other header, and a
\* body changed after signing, returns false.
C20_ValidIffSignedHeader ==
    (sig.called /\ sig.secret # "") =>
        sig.out = Returned(sig.signature_header = SignedHeader(sig.payload, sig.secret))

\* C21: the verifier raises for no input: whatever the body, the header (its
\* remainder empty, no digest, or holding non-ASCII characters) and the
\* secret, the call ends with an ordinary true or false.
C21_VerifierNeverRaises ==
    sig.called => (~sig.out.raised /\ sig.out.ret \in BOOLEAN)

-----------------------------------------------------------------------------
(* Backend events                                                          *)

IsJobEventCall(c) == c.op = "track_workflow_event" /\ c.name = "WorkflowJob"

IsRunEventCall(c) == c.op = "track_workflow_event" /\ c.name = "WorkflowRun"

\* C25: the backend answers a valid workflow_job event with True and emits,
\* through track_workflow_event, an event named "WorkflowJob" (whose
\* properties carry the job's name and status).
C25_JobEventTracked ==
    (IsJobEvent /\ proc = "backend" /\ fault.kind = "none") =>
        /\ result = TRUE
        /\ Len(SelectSeq(calls, IsJobEventCall)) >= 1

RunDurationComputed == RunBoundsPresent /\ TheRun.status = "completed"

\* C26: the backend answers every valid workflow_run event, whatever its
\* status, with True and emits exactly one "WorkflowRun" event carrying the
\* workflow name, the status and the conclusion ("" when absent); the event
\* has a duration_seconds measurement, and a separate
\* workflow_duration_seconds metric follows, exactly when a duration was
\* computed.  The one exception is a call on the client that raises: the
\* result is then False and the calls after the raising one are not made.
C26_RunEventTracked ==
    (IsRunEvent /\ proc = "backend") =>
        LET events  == SelectSeq(calls, IsRunEventCall)
            metrics == RunDurationMetrics
        IN  /\ Len(events) = 1
            /\ calls[1] = events[1]
            /\ events[1].props.workflow_name = TheRun.name
            /\ events[1].props.status = TheRun.status
            /\ events[1].props.conclusion
                  = (IF Present(TheRun.conclusion) THEN Val(TheRun.conclusion) ELSE "")
            /\ Present(events[1].value) <=> RunDurationComputed
            /\ Present(events[1].value) =>
                  Val(events[1].value) = Val(TheRun.updated_at) - Val(TheRun.run_started_at)
            /\ fault.kind # "raise" =>
                  /\ result = TRUE
                  /\ Len(metrics) = (IF RunDurationComputed THEN 1 ELSE 0)
                  /\ Len(metrics) = 1 => metrics[1].value = events[1].value
            /\ fault.kind = "raise" =>
                  /\ result = FALSE
                  /\ Len(calls) = fault.at

\* C26 witness: an in_progress run without a conclusion was answered with
\* True, one WorkflowRun event with conclusion "" and no duration metric.
C26_Witness ==
    /\ IsRunEvent
    /\ proc = "backend"
    /\ TheRun.status = "in_progress"
    /\ ~Present(TheRun.conclusion)
    /\ result = TRUE
    /\ Len(calls) = 1
    /\ IsRunEventCall(calls[1])
    /\ calls[1].props = [workflow_name |-> "CI", status |-> "in_progress", conclusion |-> ""]
    /\ ~Present(calls[1].value)

\* C26 second case: a completed run with both bounds got the measurement and
\* the metric.
C26_CompletedRun ==
    /\ IsRunEvent
    /\ proc = "backend"
    /\ RunDurationComputed
    /\ result = TRUE
    /\ Len(calls) = 2
    /\ Present(calls[1].value)
    /\ calls[2].name = "workflow_duration_seconds"

-----------------------------------------------------------------------------
(* Pool name                                                               *)

\* The whole of a text after its first occurrence of the marker.
AfterFirstMarker(value) == SubSeq(value, FirstMarker(value) + 1, Len(value))

\* C22: when some label holds "ManagedDevOps.Pool=", the pool name is the
\* whole text after that marker in the first such label in list order; when
\* none does, or the list is empty, it is the empty text.
C22_PoolNameIsRestOfFirstMatch ==
    mdp.called =>
        IF \E i \in 1 .. Len(mdp.labels) : HasMarker(mdp.labels[i])
        THEN \E i \in 1 .. Len(mdp.labels) :
                 /\ HasMarker(mdp.labels[i])
                 /\ \A j \in 1 .. i - 1 : ~HasMarker(mdp.labels[j])
                 /\ mdp.out = AfterFirstMarker(mdp.labels[i])
        ELSE mdp.out = <<>>

-----------------------------------------------------------------------------
(* Metric aggregator                                                       *)

MinOf(vs) == CHOOSE v \in {vs[i] : i \in 1 .. Len(vs)} : \A i \in 1 .. Len(vs) : v <= vs[i]

MaxOf(vs) == CHOOSE v \in {vs[i] : i \in 1 .. Len(vs)} : \A i \in 1 .. Len(vs) : v >= vs[i]

\* C23: for every name with at least one observation the aggregator holds
\* the least and the greatest value observed, their sum, their number, and
\* as representative value the sum divided by the number; after 10, 30, 20
\* under one name that is min 10, max 30, sum 60, count 3 and 20.
C23_AggregatorSummaries ==
    \A n \in AggNames :
        agg[n].count > 0 =>
            /\ agg[n].count = Len(agg[n].values)
            /\ agg[n].min = MinOf(agg[n].values)
            /\ agg[n].max = MaxOf(agg[n].values)
            /\ agg[n].sum = SumOf(agg[n].values)
            /\ SameRatio(agg[n].representative_value, Ratio(agg[n].sum, agg[n].count))
            /\ agg[n].values = <<10, 30, 20>> =>
                   /\ agg[n].min = 10 /\ agg[n].max = 30
                   /\ agg[n].sum = 60 /\ agg[n].count = 3
                   /\ SameRatio(agg[n].representative_value, Ratio(20, 1))

\* C23 witness: 10, 30 and 20 were observed under one name, in that order.
C23_Witness ==
    /\ agg["duration_seconds"].values = <<10, 30, 20>>
    /\ agg["duration_seconds"].min = 10
    /\ agg["duration_seconds"].max = 30
    /\ agg["duration_seconds"].sum = 60
    /\ agg["duration_seconds"].count = 3
    /\ SameRatio(agg["duration_seconds"].representative_value, Ratio(20, 1))

-----------------------------------------------------------------------------
(* Concurrent job events                                                   *)

\* C24: when two job events of different runs are processed at once through
\* one processor and one client, under every interleaving each exported span
\* carries the trace id derived from the workflow_run_id of its own event and
\* the parent link of its own call; neither call sees the trace context the
\* other one wrote.
C24_ConcurrentCallsKeepOwnTrace ==
    \A i \in 1 .. Len(conc.out) :
        /\ conc.out[i].trace_id = GenerateTraceId(PyStr("int", conc.out[i].run_id))
        /\ conc.out[i].run_id = RunOf(conc.out[i].caller)
        /\ conc.out[i].parent.caller = conc.out[i].caller

-----------------------------------------------------------------------------
(* Webhook answers                                                         *)

Answered == response # 0

\* The request carries no valid signature for the configured secret.
SignatureInvalid ==
    webhook_secret # "" /\ req.signature # SignedHeader(req.body, webhook_secret)

\* C13, at the endpoint: the webhook handler of a service started without a
\* connection string still runs the derivation for a recognised event.
C13_WebhookStillDerives ==
    (Answered /\ ~configured /\ response = 202 /\ ValidRunEvent(req.payload)) =>
        (phase = "returned" /\ msg.payload = req.payload)

\* The signature header, if there is one, is ASCII text.
AsciiSignature == Present(req.signature) => IsAscii(Val(req.signature))

\* C14: every request (here: with an ASCII signature header) is answered with
\* 401 when the signature is invalid; else 400 when the body is not parseable
\* JSON; else 200 when the event type is not workflow_run or workflow_job (a
\* missing event header included); else 500 when processing the recognised
\* event failed, and 202 when it was accepted and processed.
C14_WebhookStatus ==
    (Answered /\ AsciiSignature) =>
        response =
            IF SignatureInvalid THEN 401
            ELSE IF JsonKind(req.body) = "invalid" THEN 400
            ELSE IF EventType(req) \notin {"workflow_run", "workflow_job"} THEN 200
            ELSE IF phase = "returned" /\ ~result THEN 500
            ELSE IF JsonKind(req.body) = "array" THEN 500
            ELSE 202

\* C27: the signature is checked before the body is parsed, filtered or
\* processed: with a non-empty secret a request whose signature is missing
\* or invalid is always answered with 401, whatever its body and event type,
\* the processor is not invoked and no telemetry is emitted.
C27_SignatureCheckedFirst ==
    (Answered /\ SignatureInvalid) =>
        /\ response = 401
        /\ phase = "ready"
        /\ calls = <<>>
        /\ local_logs = <<>>

-----------------------------------------------------------------------------
(* Queue worker                                                            *)

InQueue(i) == queue[i].state # "deleted"

\* C15: for each message of a received batch, delete_message is called if
\* and only if process_message returned True for it; a message whose
\* processing returned False or raised is not deleted by the worker and stays
\* in the queue.
C15_DeleteIffSuccess ==
    \A k \in 1 .. Len(wlog) :
        /\ wlog[k].delete_called <=> wlog[k].success
        /\ wlog[k].deleted => wlog[k].delete_called
        /\ ~wlog[k].success => InQueue(wlog[k].id)

\* C15 witness: of a batch of two, the first message succeeded and was
\* deleted, the second failed and is still in the queue.
C15_Witness ==
    /\ Len(wlog) = 2
    /\ wlog[1].success /\ wlog[1].deleted /\ ~InQueue(wlog[1].id)
    /\ ~wlog[2].success /\ ~wlog[2].delete_called /\ InQueue(wlog[2].id)

\* C16: a failure result or an exception while processing or deleting one
\* message does not stop the batch: the messages are handled in the order
\* received, and once the loop is through, every message of the batch has
\* been handled.
C16_BatchIsolation ==
    /\ Len(wlog) <= Len(batch)
    /\ \A k \in 1 .. Len(wlog) : wlog[k].id = batch[k]
    /\ \A k \in 1 .. Len(batch) - 1 : batch[k] < batch[k + 1]
    /\ pc = "sleep" => Len(wlog) = Len(batch)

\* C16 witness: deleting the first message of a batch raised, the second
\* message failed, and both were handled.
C16_Witness ==
    /\ Len(batch) = 2
    /\ Len(wlog) = 2
    /\ wlog[1].raised
    /\ ~wlog[2].success

\* C17: a message whose payload is structurally invalid for a recognised
\* event type is not retried: once the worker has handled it, it is no longer
\* in the queue to be delivered again.
C17_MalformedNotRetried ==
    \A k \in 1 .. Len(wlog) :
        queue[wlog[k].id].content = "run_malformed" => ~InQueue(wlog[k].id)

\* C18: an exception raised while fetching or processing a batch does not
\* end the poll loop: the loop sleeps and fetches again, and it stops only
\* when the service was told to stop.
C18_PollLoopSurvives ==
    /\ pc # "crashed"
    /\ caught => pc \in {"sleep", "fetch", "stopped"}
    /\ pc = "stopped" => ~running

\* C18 witness: receive_messages raised, the loop slept and is fetching
\* again, still running.
C18_Witness ==
    /\ caught
    /\ running
    /\ pc = "fetch"

\* C29: once stop() or the signal handler has cleared _running while the
\* loop runs, the loop terminates: the batch in progress is completed, the
\* iteration ends in its sleep, after which the loop stops without fetching
\* another batch; stopping changes nothing in the queue, so the messages
\* that were not deleted stay there.
C29_StopTerminatesLoop ==
    /\ (~running /\ pc # "stopped") ~> (pc = "stopped")
    /\ [][(~running /\ pc = "sleep") => (pc' = "stopped" /\ queue' = queue)]_vars
    /\ [][(~running /\ pc \in {"process", "decide"}) => pc' # "fetch"]_vars
    /\ [][(pc = "decide" /\ idx < Len(batch) /\ pc' # pc) => pc' = "process"]_vars
    /\ [][pc = "stopped" => (pc' = "stopped" /\ queue' = queue)]_vars

\* C29 witness: the loop has stopped after a signal, and a message it had
\* received and not deleted is still in the queue.
C29_Witness ==
    /\ ~running
    /\ pc = "stopped"
    /\ \E i \in MsgIds : queue[i].state = "invisible" /\ queue[i].deliveries >= 1


=============================================================================
